---- MODULE Spec2Model ----
(***************************************************************************)
(* Model of metaforge/parsers/ctf_parser.py: the header pass of the CTF    *)
(* (Channel Text File) parser.  Text is modelled as a sequence of one-     *)
(* character strings, so that strip, split, startswith, join and the       *)
(* numeric coercions are computed character by character as Python does.   *)
(*                                                                         *)
(* One run of CtfParser.parse_header is the state machine: every step      *)
(* that pulls a line from the line generator is one action, so that "no    *)
(* further line is read" is a statement about the generator's cursor.      *)
(* A second specification lets parse_header be called again on the file.   *)
(***************************************************************************)
EXTENDS Integers, Sequences, FiniteSets, TLC

VARIABLES
    pc,               \* where parse_header is: "header", "phases", "emit", "returned", "raised"
    consumed,         \* file_gen: the lines it has yielded so far, in order
    exhausted,        \* file_gen: TRUE once it has signalled its end
    entries,          \* ctf_header.entries (the list parse_header appends to and returns)
    unknown_entries,  \* ctf_header.unknown_entries
    header_phases,    \* ctf_header.phases ({} until parse_phases returns its list)
    phase_num,        \* parse_phases: num_phases (0 before the marker is dispatched)
    phases,           \* parse_phases: its local list `phases`; the loop index i is its length
    emitted,          \* parse_header: how many iterations of `for phase in phases` are done
    result,           \* parse_header's return value: <<>> while none, <<list>> once returned
    exc,              \* the exception that left parse_header: "" while none
    file,             \* the file at filepath, as far as earlier calls have read it
    earlier           \* the sequences earlier calls of parse_header returned, in order

vars == <<pc, consumed, exhausted, entries, unknown_entries, header_phases,
          phase_num, phases, emitted, result, exc, file, earlier>>

-----------------------------------------------------------------------------
(* Source constants, lines 14-40.                                          *)

TAB == "\t"

CTF_DELIMITER == TAB

CTF_CHANNEL_TEXT_FILE == <<"C","h","a","n","n","e","l"," ","T","e","x","t"," ","F","i","l","e">>

CTF_COLON_CHANNEL_TEXT_FILE ==
    <<":","C","h","a","n","n","e","l"," ","T","e","x","t"," ","F","i","l","e">>

CTF_PRJ == <<"P","r","j">>

CTF_PHASES == <<"P","h","a","s","e","s">>

CTF_LONG_TEXT ==
    <<"E","u","l","e","r"," ","a","n","g","l","e","s"," ","r","e","f","e","r"," ","t","o"," ","S","a",
    "m","p","l","e"," ","C","o","o","r","d","i","n","a","t","e"," ","s","y","s","t","e","m"," ","(",
    "C","S","0",")","!">>

CTF_MAG == <<"M","a","g">>

CTF_COVERAGE == <<"C","o","v","e","r","a","g","e">>

CTF_DEVICE == <<"D","e","v","i","c","e">>

CTF_KV == <<"K","V">>

CTF_TILT_ANGLE == <<"T","i","l","t","A","n","g","l","e">>

CTF_TILT_AXIS == <<"T","i","l","t","A","x","i","s">>

CTF_AUTHOR == <<"A","u","t","h","o","r">>

CTF_JOB_MODE == <<"J","o","b","M","o","d","e">>

CTF_X_CELLS == <<"X","C","e","l","l","s">>

CTF_Y_CELLS == <<"Y","C","e","l","l","s">>

CTF_Z_CELLS == <<"Z","C","e","l","l","s">>

CTF_X_STEP == <<"X","S","t","e","p">>

CTF_Y_STEP == <<"Y","S","t","e","p">>

CTF_Z_STEP == <<"Z","S","t","e","p">>

CTF_ACQ_E1 == <<"A","c","q","E","1">>

CTF_ACQ_E2 == <<"A","c","q","E","2">>

CTF_ACQ_E3 == <<"A","c","q","E","3">>

CTF_EULER == <<"E","u","l","e","r">>

-----------------------------------------------------------------------------
(* Python's str operations, on sequences of characters.                    *)

\* The characters str.strip() removes and int()/float() skip at both ends
\* (the ASCII ones a text line can hold).
Whitespace == {" ", "\t", "\n", "\r", "\f"}

Digits == {"0","1","2","3","4","5","6","7","8","9"}

DigitValue(c) ==
    CASE c = "0" -> 0 [] c = "1" -> 1 [] c = "2" -> 2 [] c = "3" -> 3 [] c = "4" -> 4
      [] c = "5" -> 5 [] c = "6" -> 6 [] c = "7" -> 7 [] c = "8" -> 8 [] c = "9" -> 9

DigitChar(d) ==
    CASE d = 0 -> "0" [] d = 1 -> "1" [] d = 2 -> "2" [] d = 3 -> "3" [] d = 4 -> "4"
      [] d = 5 -> "5" [] d = 6 -> "6" [] d = 7 -> "7" [] d = 8 -> "8" [] d = 9 -> "9"

SetMin(S) == CHOOSE x \in S : \A y \in S : x <= y

\* text.lstrip()
RECURSIVE lstrip(_)
lstrip(text) ==
    IF text # <<>> /\ text[1] \in Whitespace THEN lstrip(Tail(text)) ELSE text

\* text.rstrip()
RECURSIVE rstrip(_)
rstrip(text) ==
    IF text # <<>> /\ text[Len(text)] \in Whitespace
    THEN rstrip(SubSeq(text, 1, Len(text) - 1))
    ELSE text

\* text.strip()
strip(text) == lstrip(rstrip(text))

\* text.startswith(prefix)
startswith(text, prefix) ==
    /\ Len(text) >= Len(prefix)
    /\ SubSeq(text, 1, Len(prefix)) = prefix

\* The token between the (k-1)-th and the k-th separator of text, at being the set of
\* the separators' positions (0 stands before the first, Len + 1 after the last)
TokenBetween(text, at, k) ==
    SubSeq(text,
           (IF k = 1 THEN 0 ELSE CHOOSE i \in at : Cardinality({j \in at : j < i}) = k - 2) + 1,
           (IF k = Cardinality(at) + 1 THEN Len(text) + 1
            ELSE CHOOSE i \in at : Cardinality({j \in at : j < i}) = k - 1) - 1)

SplitAt(text, at) == [k \in 1..(Cardinality(at) + 1) |-> TokenBetween(text, at, k)]

\* text.split(sep) for a one-character sep: one token more than there are separators,
\* empty tokens kept; ''.split(sep) is [''].
split(text, sep) == SplitAt(text, {i \in 1..Len(text) : text[i] = sep})

\* sep.join(tokens)
RECURSIVE join(_, _)
join(sep, tokens) ==
    IF tokens = <<>> THEN <<>>
    ELSE IF Len(tokens) = 1 THEN tokens[1]
    ELSE tokens[1] \o <<sep>> \o join(sep, Tail(tokens))

\* text.replace(old, new) for one-character old and new
replace(text, old, new) ==
    [i \in 1..Len(text) |-> IF text[i] = old THEN new ELSE text[i]]

\* text[start:] with a zero-based start (an empty string when start is past the end)
slice_from(text, start) == SubSeq(text, start + 1, Len(text))

\* str(n) for an integer n
RECURSIVE NatToStr(_)
NatToStr(n) ==
    IF n < 10 THEN <<DigitChar(n)>> ELSE NatToStr(n \div 10) \o <<DigitChar(n % 10)>>

str_of_int(n) == IF n < 0 THEN <<"-">> \o NatToStr(0 - n) ELSE NatToStr(n)

-----------------------------------------------------------------------------
(* Metadata values and the outcome of a call that may raise.               *)

NoneV == [t |-> "None"]

StrV(s) == [t |-> "str", s |-> s]

IntV(n) == [t |-> "int", n |-> n]

\* A float is kept exactly, as m * 10^e with m not a multiple of 10 (0.0 is m = 0, e = 0);
\* special is "inf" or "nan" for the non-finite values (m then holds the sign), else "".
FloatV(m, e, special) == [t |-> "float", m |-> m, e |-> e, special |-> special]

TupleV(a, b, c) == [t |-> "tuple", items |-> <<a, b, c>>]

\* A call that returned v.
Ok(v) == [err |-> "", v |-> v]

\* A call that raised the exception named kind.
Raise(kind) == [err |-> kind, v |-> NoneV]

-----------------------------------------------------------------------------
(* The builtins int() and float() on text, lines 51-53, 126, 137, 147, 158-163, 190. *)

\* digit ("_"? digit)*: the digit part of a Python numeric literal
IsDigitPart(s) ==
    /\ Len(s) > 0
    /\ s[1] \in Digits
    /\ s[Len(s)] \in Digits
    /\ \A i \in 1..Len(s) : s[i] \in Digits \cup {"_"}
    /\ \A i \in 1..(Len(s) - 1) : ~(s[i] = "_" /\ s[i + 1] = "_")

OnlyDigits(s) == SelectSeq(s, LAMBDA c : c \in Digits)

RECURSIVE DigitsValue(_)
DigitsValue(s) ==
    IF s = <<>> THEN 0 ELSE 10 * DigitsValue(SubSeq(s, 1, Len(s) - 1)) + DigitValue(s[Len(s)])

HasSign(s) == Len(s) > 0 /\ s[1] \in {"+", "-"}

Unsigned(s) == IF HasSign(s) THEN Tail(s) ELSE s

SignOf(s) == IF HasSign(s) /\ s[1] = "-" THEN 0 - 1 ELSE 1

\* int() of a text without surrounding whitespace: an optional sign, then a digit part
IntOfStripped(s) ==
    IF IsDigitPart(Unsigned(s))
    THEN Ok(IntV(SignOf(s) * DigitsValue(OnlyDigits(Unsigned(s)))))
    ELSE Raise("ValueError")

\* int(text), base 10: surrounding whitespace is skipped
py_int(text) == IntOfStripped(strip(text))

RECURSIVE Pow10(_)
Pow10(n) == IF n <= 0 THEN 1 ELSE 10 * Pow10(n - 1)

RECURSIVE NormFloat(_, _)
NormFloat(m, e) ==
    IF m = 0 THEN FloatV(0, 0, "")
    ELSE IF m % 10 = 0 THEN NormFloat(m \div 10, e + 1)
    ELSE FloatV(m, e, "")

LowerChar(c) ==
    CASE c = "I" -> "i" [] c = "N" -> "n" [] c = "F" -> "f" [] c = "T" -> "t"
      [] c = "Y" -> "y" [] c = "A" -> "a" [] OTHER -> c

Lower(s) == [i \in 1..Len(s) |-> LowerChar(s[i])]

\* Where s has one of the characters of marks first; 0 when it has none.
FirstOf(s, marks) ==
    IF \E i \in 1..Len(s) : s[i] \in marks
    THEN SetMin({i \in 1..Len(s) : s[i] \in marks})
    ELSE 0

\* The part of s before position at (all of s when at is 0), and the part after it.
Before(s, at) == IF at = 0 THEN s ELSE SubSeq(s, 1, at - 1)

After(s, at) == IF at = 0 THEN <<>> ELSE SubSeq(s, at + 1, Len(s))

\* digits, or digits "." digits with one side allowed to be empty
IsMantissa(mant, dot) ==
    IF dot = 0 THEN IsDigitPart(mant)
    ELSE /\ Before(mant, dot) = <<>> \/ IsDigitPart(Before(mant, dot))
         /\ After(mant, dot) = <<>> \/ IsDigitPart(After(mant, dot))
         /\ ~(Before(mant, dot) = <<>> /\ After(mant, dot) = <<>>)

\* The value of the literal: the digits of both sides of the point as one integer,
\* scaled by the exponent less the number of fraction digits.
LiteralValue(sign, intPart, fracPart, hasExp, expo) ==
    NormFloat(sign * DigitsValue(OnlyDigits(intPart) \o OnlyDigits(fracPart)),
              (IF hasExp THEN SignOf(expo) * DigitsValue(OnlyDigits(Unsigned(expo))) ELSE 0)
                - Len(OnlyDigits(fracPart)))

\* mant [("e" | "E") expo]
FloatOfLiteral(sign, mant, hasExp, expo) ==
    IF /\ IsMantissa(mant, FirstOf(mant, {"."}))
       /\ hasExp => IsDigitPart(Unsigned(expo))
    THEN Ok(LiteralValue(sign, Before(mant, FirstOf(mant, {"."})),
                         After(mant, FirstOf(mant, {"."})), hasExp, expo))
    ELSE Raise("ValueError")

\* The text after the sign: "inf", "infinity" or "nan" in any case, or a literal.
FloatOfBody(sign, body) ==
    IF Lower(body) \in {<<"i","n","f">>, <<"i","n","f","i","n","i","t","y">>}
    THEN Ok(FloatV(sign, 0, "inf"))
    ELSE IF Lower(body) = <<"n","a","n">>
    THEN Ok(FloatV(sign, 0, "nan"))
    ELSE FloatOfLiteral(sign, Before(body, FirstOf(body, {"e", "E"})),
                        FirstOf(body, {"e", "E"}) # 0, After(body, FirstOf(body, {"e", "E"})))

\* float(text): surrounding whitespace is skipped, then an optional sign
py_float(text) == FloatOfBody(SignOf(strip(text)), Unsigned(strip(text)))

\* int(x) for a float x: truncation toward zero; int(inf) and int(nan) raise.
int_of_float(x) ==
    IF x.special = "inf" THEN Raise("OverflowError")
    ELSE IF x.special = "nan" THEN Raise("ValueError")
    ELSE IF x.e >= 0 THEN Ok(IntV(x.m * Pow10(x.e)))
    ELSE IF x.m >= 0 THEN Ok(IntV(x.m \div Pow10(0 - x.e)))
    ELSE Ok(IntV(0 - ((0 - x.m) \div Pow10(0 - x.e))))

\* str(text): the text itself
py_str(text) == Ok(StrV(text))

-----------------------------------------------------------------------------
(* Lines 42-46: the decimal-separator normalisation and parse_float.       *)

euro_to_us_dec_string(text) == replace(text, ",", ".")

parse_float(text) == py_float(euro_to_us_dec_string(text))

-----------------------------------------------------------------------------
(* Lines 48-67: the keyword dispatch table and the units table.            *)

StrKeywords == {CTF_AUTHOR, CTF_JOB_MODE, CTF_EULER}

IntKeywords == {CTF_X_CELLS, CTF_Y_CELLS, CTF_Z_CELLS}

FloatKeywords == {CTF_X_STEP, CTF_Y_STEP, CTF_Z_STEP, CTF_ACQ_E1, CTF_ACQ_E2, CTF_ACQ_E3}

\* keyword in CTF_HEADER_PARSE_MAP
InParseMap(keyword) == keyword \in StrKeywords \cup IntKeywords \cup FloatKeywords

\* CTF_HEADER_PARSE_MAP[keyword](text)
CTF_HEADER_PARSE_MAP(keyword, text) ==
    IF keyword \in IntKeywords THEN py_int(text)
    ELSE IF keyword \in FloatKeywords THEN parse_float(text)
    ELSE py_str(text)

\* CTF_HEADER_UNITS_MAP.get(keyword, ''); the unit strings are imported constants,
\* kept by name.
CTF_HEADER_UNITS_MAP(keyword) ==
    IF keyword \in {CTF_X_STEP, CTF_Y_STEP, CTF_Z_STEP} THEN "MICRONS_UNITS" ELSE ""

\* MetaForgeMetadata(key, value, annotations, units); '' is the default of the last two.
MetaForgeMetadata(key, value, annotations, units) ==
    [key |-> key, value |-> value, annotations |-> annotations, units |-> units]

SOURCE == <<"S","O","U","R","C","E","/">>

-----------------------------------------------------------------------------
(* Lines 81-93: LaueGroup.                                                  *)

LaueGroupMin == 1

LaueGroupMax == 12

\* UNKNOWN_SYMMETRY put in the place of a code that is no member's value
LaueGroup_Substituting(code) ==
    IF code \in LaueGroupMin..LaueGroupMax THEN Ok(IntV(code)) ELSE Ok(IntV(LaueGroupMax))

\* LaueGroup(code): a ValueError unless code is the value of a member
LaueGroup(code) ==
    IF code \in LaueGroupMin..LaueGroupMax THEN Ok(IntV(code)) ELSE Raise("ValueError")

\* LaueGroup(code).name
LaueGroupName(code) ==
    CASE code = 1 -> <<"T","R","I","C","L","I","N","I","C">>
      [] code = 2 -> <<"M","O","N","O","C","L","I","N","I","C">>
      [] code = 3 -> <<"O","R","T","H","O","R","H","O","M","B","I","C">>
      [] code = 4 -> <<"T","E","T","R","A","G","O","N","A","L","_","L","O","W">>
      [] code = 5 -> <<"T","E","T","R","A","G","O","N","A","L","_","H","I","G","H">>
      [] code = 6 -> <<"T","R","I","G","O","N","A","L","_","L","O","W">>
      [] code = 7 -> <<"T","R","I","G","O","N","A","L","_","H","I","G","H">>
      [] code = 8 -> <<"H","E","X","A","G","O","N","A","L","_","L","O","W">>
      [] code = 9 -> <<"H","E","X","A","G","O","N","A","L","_","H","I","G","H">>
      [] code = 10 -> <<"C","U","B","I","C","_","L","O","W">>
      [] code = 11 -> <<"C","U","B","I","C","_","H","I","G","H">>
      [] code = 12 -> <<"U","N","K","N","O","W","N","_","S","Y","M","M","E","T","R","Y">>

-----------------------------------------------------------------------------
(* Lines 124-126: parse_float_triplet.                                      *)

\* tokens[k] for a zero-based k raises an IndexError
Missing(tokens, k) == Len(tokens) <= k

\* tokens[k] for a zero-based k
Token(tokens, k) == tokens[k + 1]

\* A missing token read as a default value instead of an error
IndexError_Defaulted == Ok(IntV(0))

IndexError == Raise("IndexError")

\* The first call of calls that raised, or Ok(NoneV) when none did: the calls are made
\* in order and the first exception ends the sequence.
RECURSIVE FirstRaise(_)
FirstRaise(calls) ==
    IF calls = <<>> THEN Ok(NoneV)
    ELSE IF calls[1].err # "" THEN calls[1]
    ELSE FirstRaise(Tail(calls))

\* float(tokens[k])
FloatAt(tokens, k) == IF Missing(tokens, k) THEN IndexError ELSE py_float(Token(tokens, k))

\* Line 126: the tuple of the three calls, made left to right
TripletOf(a, b, c) ==
    IF FirstRaise(<<a, b, c>>).err # "" THEN FirstRaise(<<a, b, c>>)
    ELSE Ok(TupleV(a.v, b.v, c.v))

TripletOfTokens(tokens) == TripletOf(FloatAt(tokens, 0), FloatAt(tokens, 1), FloatAt(tokens, 2))

parse_float_triplet(text) == TripletOfTokens(split(euro_to_us_dec_string(text), ";"))

-----------------------------------------------------------------------------
(* Lines 128-155: one iteration of the loop of parse_phases.                *)

CtfPhase(index, lattice_constants, lattice_angles, name, group, space_group, comment, internal1, internal2) ==
    [index |-> index, lattice_constants |-> lattice_constants,
     lattice_angles |-> lattice_angles, name |-> name, group |-> group,
     space_group |-> space_group, comment |-> comment,
     internal1 |-> internal1, internal2 |-> internal2]

\* The range one short: range(num_phases - 1)
RangeHasNext_OneShort(i, num_phases) == i + 1 < num_phases

\* Line 131: `for i in range(num_phases)` runs its body again after i iterations
RangeHasNext(i, num_phases) == i < num_phases

\* The index read from the row (its symmetry-class field) instead of the position
PhaseIndex_FromRow(i, tokens) == py_int(Token(tokens, 3)).v.n

\* Line 152: the index given to the phase built in iteration i (i counts from 0)
PhaseIndex(i, tokens) == i + 1

\* Lines 146-150: the 8-token shape, sg being int(tokens[4].strip())
EightFields(tokens, sg) ==
    IF sg.err # "" THEN sg
    ELSE Ok([space_group |-> sg.v.n, comment |-> strip(Token(tokens, 7)),
             internal1 |-> strip(Token(tokens, 5)), internal2 |-> strip(Token(tokens, 6))])

\* The comment taken from field 4 of every row that has one and is not of 8 fields
OptionalFields_FromFive(tokens) ==
    IF Len(tokens) = 8
    THEN EightFields(tokens, py_int(strip(Token(tokens, 4))))
    ELSE IF Len(tokens) >= 5
    THEN Ok([space_group |-> 0, comment |-> strip(Token(tokens, 4)),
             internal1 |-> <<>>, internal2 |-> <<>>])
    ELSE Ok([space_group |-> 0, comment |-> <<>>, internal1 |-> <<>>, internal2 |-> <<>>])

\* Lines 139-150: the four optional values, chosen by the number of tokens
OptionalFields(tokens) ==
    IF Len(tokens) = 5
    THEN Ok([space_group |-> 0, comment |-> strip(Token(tokens, 4)),
             internal1 |-> <<>>, internal2 |-> <<>>])
    ELSE IF Len(tokens) = 8
    THEN EightFields(tokens, py_int(strip(Token(tokens, 4))))
    ELSE Ok([space_group |-> 0, comment |-> <<>>, internal1 |-> <<>>, internal2 |-> <<>>])

\* LaueGroup(code) for the outcome code of int(text)
LaueGroupOfInt(code) == IF code.err # "" THEN code ELSE LaueGroup(code.v.n)

\* Lines 134-135: parse_float_triplet(tokens[k].strip())
TripletAt(tokens, k) ==
    IF Missing(tokens, k) THEN IndexError ELSE parse_float_triplet(strip(Token(tokens, k)))

\* Line 136: tokens[2].strip()
NameAt(tokens, k) == IF Missing(tokens, k) THEN IndexError ELSE Ok(StrV(strip(Token(tokens, k))))

\* Line 137: LaueGroup(int(tokens[3]))
GroupAt(tokens, k) ==
    IF Missing(tokens, k) THEN IndexError ELSE LaueGroupOfInt(py_int(Token(tokens, k)))

\* Lines 134-153: the statements run in order, the first exception ending the iteration
PhaseOf(i, tokens, lattice_constants, lattice_angles, name, group, opt) ==
    IF FirstRaise(<<lattice_constants, lattice_angles, name, group>>).err # ""
    THEN FirstRaise(<<lattice_constants, lattice_angles, name, group>>)
    ELSE IF opt.err # "" THEN Raise(opt.err)
    ELSE Ok(CtfPhase(PhaseIndex(i, tokens), lattice_constants.v, lattice_angles.v,
                     name.v.s, group.v.n, opt.v.space_group, opt.v.comment,
                     opt.v.internal1, opt.v.internal2))

PhaseOfTokens(i, tokens) ==
    PhaseOf(i, tokens, TripletAt(tokens, 0), TripletAt(tokens, 1), NameAt(tokens, 2),
            GroupAt(tokens, 3), OptionalFields(tokens))

\* The fields counted on the line as the generator yielded it, not stripped
PhaseRow_Unstripped(i, rawline) == PhaseOfTokens(i, split(rawline, TAB))

\* Lines 132-153 for the line the generator yielded in iteration i: the phase appended,
\* or the exception raised
PhaseRow(i, rawline) == PhaseOfTokens(i, split(strip(rawline), TAB))

-----------------------------------------------------------------------------
(* Lines 157-172: parse_ctf_long_text.                                      *)

\* Lines 158-160: int(tokens[k].strip())
IntAt(tokens, k) == IF Missing(tokens, k) THEN IndexError ELSE py_int(strip(Token(tokens, k)))

\* int(x) for the outcome x of float(text)
IntOfFloatOutcome(x) == IF x.err # "" THEN x ELSE int_of_float(x.v)

\* KV kept as the float it was parsed to, not truncated
TruncatedFloatAt_Untruncated(tokens, k) ==
    IF Missing(tokens, k) THEN IndexError ELSE py_float(strip(Token(tokens, k)))

\* Line 161: int(float(tokens[k].strip()))
TruncatedFloatAt(tokens, k) ==
    IF Missing(tokens, k) THEN IndexError ELSE IntOfFloatOutcome(py_float(strip(Token(tokens, k))))

\* Lines 162-163: float(tokens[k].strip())
PlainFloatAt(tokens, k) ==
    IF Missing(tokens, k) THEN IndexError ELSE py_float(strip(Token(tokens, k)))

SourceKey(name) == SOURCE \o name

\* Lines 164-172: the six entries, once every value is there
LongTextEntries(mag, coverage, device, kv, tilt_angle, tilt_axis) ==
    IF FirstRaise(<<mag, coverage, device, kv, tilt_angle, tilt_axis>>).err # ""
    THEN FirstRaise(<<mag, coverage, device, kv, tilt_angle, tilt_axis>>)
    ELSE Ok(<<MetaForgeMetadata(SourceKey(CTF_MAG), mag.v, <<>>, ""),
              MetaForgeMetadata(SourceKey(CTF_COVERAGE), coverage.v, <<>>, ""),
              MetaForgeMetadata(SourceKey(CTF_DEVICE), device.v, <<>>, ""),
              MetaForgeMetadata(SourceKey(CTF_KV), kv.v, <<>>, ""),
              MetaForgeMetadata(SourceKey(CTF_TILT_ANGLE), tilt_angle.v, <<>>, ""),
              MetaForgeMetadata(SourceKey(CTF_TILT_AXIS), tilt_axis.v, <<>>, "")>>)

parse_ctf_long_text(tokens) ==
    LongTextEntries(IntAt(tokens, 2), IntAt(tokens, 4), IntAt(tokens, 6),
                    TruncatedFloatAt(tokens, 8), PlainFloatAt(tokens, 10),
                    PlainFloatAt(tokens, 12))

-----------------------------------------------------------------------------
(* The lines the generator file_line_generator(filepath) may yield (line    *)
(* 175): a pool that holds every kind of header line and of phase row.      *)

LineSignature == CTF_CHANNEL_TEXT_FILE

LineColonSignature == CTF_COLON_CHANNEL_TEXT_FILE

LinePrj == <<"P","r","j","\t","N","i">>

\* period decimals: KV 20.5, TiltAngle 70.5
LineLongText ==
    CTF_LONG_TEXT \o
    <<"\t","M","a","g","\t","2","0","0","\t","C","o","v","e","r","a","g","e","\t","1","0","0","\t",
    "D","e","v","i","c","e","\t","0","\t","K","V","\t","2","0",".","5","\t","T","i","l","t","A","n",
    "g","l","e","\t","7","0",".","5","\t","T","i","l","t","A","x","i","s","\t","0">>

\* the same line with TiltAngle written 70,5
LineLongTextComma ==
    CTF_LONG_TEXT \o
    <<"\t","M","a","g","\t","2","0","0","\t","C","o","v","e","r","a","g","e","\t","1","0","0","\t",
    "D","e","v","i","c","e","\t","0","\t","K","V","\t","2","0","\t","T","i","l","t","A","n","g","l",
    "e","\t","7","0",",","5","\t","T","i","l","t","A","x","i","s","\t","0">>

\* five tokens only
LineLongTextShort ==
    CTF_LONG_TEXT \o
    <<"\t","M","a","g","\t","2","0","0","\t","C","o","v","e","r","a","g","e","\t","1","0","0">>

LinePhases0 == <<"P","h","a","s","e","s","\t","0">>

LinePhases1 == <<"P","h","a","s","e","s","\t","1">>

LinePhases2 == <<"P","h","a","s","e","s","\t","2">>

LineXStepComma == <<"X","S","t","e","p","\t","0",",","5">>

LineXStepPeriod == <<"X","S","t","e","p","\t","0",".","5">>

LineXStepBare == <<"X","S","t","e","p">>

LineXCells == <<"X","C","e","l","l","s","\t","1","2">>

LineXCellsBare == <<"X","C","e","l","l","s">>

LineXCellsBad == <<"X","C","e","l","l","s","\t","1","x">>

LineMumble == <<"M","u","m","b","l","e","\t","f","o","o","\t","b","a","r">>

Row5 ==
    <<"3",",","5",";","3",",","5",";","3",",","5","\t","9","0",";","9","0",";","9","0","\t","N","i",
    "\t","1","1","\t","f","c","c">>

Row8 ==
    <<"2",".","8",";","2",".","8",";","2",".","8","\t","9","0",";","9","0",";","9","0","\t","F","e",
    "\t","1","1","\t","2","2","9","\t","i","1","\t","i","2","\t","b","c","c">>

Row8Trailing ==
    <<"2",".","8",";","2",".","8",";","2",".","8","\t","9","0",";","9","0",";","9","0","\t","F","e",
    "\t","1","1","\t","2","2","9","\t","\t","\t">>

\* A row written with 8 fields, the comment (field 7) empty
Row8NoComment ==
    <<"2",".","8",";","2",".","8",";","2",".","8","\t","9","0",";","9","0",";","9","0","\t","F","e",
    "\t","1","1","\t","2","2","9","\t","i","1","\t","i","2","\t">>

\* A row written with 8 fields, the last two (fields 6 and 7) empty
Row8NoInternal2 ==
    <<"2",".","8",";","2",".","8",";","2",".","8","\t","9","0",";","9","0",";","9","0","\t","F","e",
    "\t","1","1","\t","2","2","9","\t","i","1","\t","\t">>

Row4 == <<"4",";","4",";","4","\t","9","0",";","9","0",";","9","0","\t","A","l","\t","3">>

Row6 ==
    <<"4",";","4",";","4","\t","9","0",";","9","0",";","9","0","\t","A","l","\t","3","\t","7","\t","x">>

Row3 == <<"4",";","4",";","4","\t","9","0",";","9","0",";","9","0","\t","A","l">>

RowBadLaue == <<"4",";","4",";","4","\t","9","0",";","9","0",";","9","0","\t","A","l","\t","1","3">>

HeaderLines ==
    {LineSignature, LineColonSignature, LinePrj, LineLongText, LineLongTextComma,
     LineLongTextShort, LinePhases0, LinePhases1, LinePhases2, LineXStepComma,
     LineXStepPeriod, LineXStepBare, LineXCells, LineXCellsBare, LineXCellsBad,
     LineMumble}

RowLines ==
    {Row5, Row8, Row8Trailing, Row8NoComment, Row8NoInternal2, Row4, Row6, Row3, RowBadLaue}

Lines == HeaderLines \cup RowLines

\* The longest input the generator yields.
MaxLines == 3

-----------------------------------------------------------------------------
(* Lines 174-201: _parse_header, one action per branch of the loop body.    *)

\* The chain without the test for the banner with a leading colon
Rule_NoColon(line) ==
    IF startswith(line, CTF_CHANNEL_TEXT_FILE) THEN "signature"
    ELSE IF startswith(line, CTF_PRJ) THEN "prj"
    ELSE IF startswith(line, CTF_LONG_TEXT) THEN "long_text"
    ELSE IF startswith(line, CTF_PHASES) THEN "phases"
    ELSE IF InParseMap(Token(split(line, CTF_DELIMITER), 0)) THEN "keyword"
    ELSE "unknown"

\* Lines 182-199: the branch of the if/elif chain a stripped line takes
Rule(line) ==
    IF startswith(line, CTF_CHANNEL_TEXT_FILE) \/ startswith(line, CTF_COLON_CHANNEL_TEXT_FILE)
    THEN "signature"
    ELSE IF startswith(line, CTF_PRJ) THEN "prj"
    ELSE IF startswith(line, CTF_LONG_TEXT) THEN "long_text"
    ELSE IF startswith(line, CTF_PHASES) THEN "phases"
    ELSE IF InParseMap(Token(split(line, CTF_DELIMITER), 0)) THEN "keyword"
    ELSE "unknown"

\* Line 185: the entry of a Prj line
PrjEntry(line) ==
    MetaForgeMetadata(SourceKey(CTF_PRJ), StrV(slice_from(line, Len(CTF_PRJ) + 1)), <<>>, "")

\* Line 190: int(tokens[1])
PhaseCount(tokens) == IF Missing(tokens, 1) THEN IndexError ELSE py_int(Token(tokens, 1))

\* A coercion whose failure is swallowed, the value left absent
Swallowed(got) == IF got.err # "" THEN Ok(NoneV) ELSE got

KeywordValue_Swallowing(keyword, tokens) ==
    IF Len(tokens) > 1
    THEN Swallowed(CTF_HEADER_PARSE_MAP(keyword, join(CTF_DELIMITER, Tail(tokens))))
    ELSE Ok(NoneV)

\* The coercion applied to the payload even when there is none
KeywordValue_AlwaysCoerced(keyword, tokens) ==
    CTF_HEADER_PARSE_MAP(keyword, join(CTF_DELIMITER, Tail(tokens)))

\* Lines 194-196: the value of a dispatch-table line
KeywordValue(keyword, tokens) ==
    IF Len(tokens) > 1
    THEN CTF_HEADER_PARSE_MAP(keyword, join(CTF_DELIMITER, Tail(tokens)))
    ELSE Ok(NoneV)

\* Lines 197-198: the entry of a dispatch-table line whose value is value
KeywordEntry(keyword, value) ==
    MetaForgeMetadata(SourceKey(keyword), value, <<>>, CTF_HEADER_UNITS_MAP(keyword))

\* The value taken from the first payload field alone
UnknownEntry_FirstFieldOnly(keyword, tokens) ==
    MetaForgeMetadata(SourceKey(keyword), StrV(join(CTF_DELIMITER, SubSeq(tokens, 2, 2))), <<>>, "")

\* Line 200: the entry of a line no other branch takes
UnknownEntry(keyword, tokens) ==
    MetaForgeMetadata(SourceKey(keyword), StrV(join(CTF_DELIMITER, Tail(tokens))), <<>>, "")

\* Without the break: the for loop of _parse_header goes on
AfterPhases_NoBreak == "header"

\* Line 192: where control goes once parse_phases has returned (break leaves the loop)
AfterPhases == "emit"

\* The generator can yield one more line.
CanYield == ~exhausted /\ Len(consumed) < MaxLines

\* An exception leaves parse_header: nothing is returned.
Raised(kind) ==
    /\ pc' = "raised"
    /\ exc' = kind
    /\ UNCHANGED <<exhausted, entries, unknown_entries, header_phases, phase_num, phases,
                   emitted, result, file, earlier>>

\* The loop body ran for a line and the loop goes on: what it left in the header.
Continue(new_entries, new_unknown) ==
    /\ entries' = new_entries
    /\ unknown_entries' = new_unknown
    /\ UNCHANGED <<pc, exhausted, header_phases, phase_num, phases, emitted, result, exc,
                   file, earlier>>

\* The files read keep the order of the format: a phase row stands only after a line
\* that begins with "Phases"; every other line may stand anywhere.
InFileOrder(rawline) ==
    rawline \in RowLines =>
        \E i \in 1..Len(consumed) : startswith(strip(consumed[i]), CTF_PHASES)

\* rawline can stand next in the file: where an earlier call has read the file, the
\* line is the one it read there, and the file goes on where it ended at no time.
InFile(rawline) ==
    IF Len(consumed) < Len(file.lines) THEN rawline = file.lines[Len(consumed) + 1]
    ELSE ~file.ended

\* The generator can signal its end: the file has no line beyond those yielded.
CanEnd == ~exhausted /\ Len(consumed) >= Len(file.lines)

\* file_gen yields rawline: the cursor moves past it.
Yield(rawline) ==
    /\ CanYield
    /\ InFileOrder(rawline)
    /\ InFile(rawline)
    /\ consumed' = Append(consumed, rawline)

\* Lines 178-183
SignatureLine(rawline) ==
    /\ pc = "header" /\ Yield(rawline)
    /\ Rule(strip(rawline)) = "signature"
    /\ Continue(entries, unknown_entries)

\* Lines 184-185
PrjLine(rawline) ==
    /\ pc = "header" /\ Yield(rawline)
    /\ Rule(strip(rawline)) = "prj"
    /\ Continue(Append(entries, PrjEntry(strip(rawline))), unknown_entries)

\* Line 188, got being what parse_ctf_long_text(tokens) did
LongTextOutcome(got) ==
    IF got.err # "" THEN Raised(got.err) ELSE Continue(entries \o got.v, unknown_entries)

\* Lines 186-188
LongTextLine(rawline) ==
    /\ pc = "header" /\ Yield(rawline)
    /\ Rule(strip(rawline)) = "long_text"
    /\ LongTextOutcome(parse_ctf_long_text(split(strip(rawline), CTF_DELIMITER)))

\* Lines 190-191, got being what int(tokens[1]) did: parse_phases is entered
PhasesOutcome(got) ==
    IF got.err # "" THEN Raised(got.err)
    ELSE /\ pc' = "phases"
         /\ phase_num' = got.v.n
         /\ phases' = <<>>
         /\ UNCHANGED <<exhausted, entries, unknown_entries, header_phases, emitted,
                        result, exc, file, earlier>>

\* Lines 189-191: the marker is dispatched
PhasesLine(rawline) ==
    /\ pc = "header" /\ Yield(rawline)
    /\ Rule(strip(rawline)) = "phases"
    /\ PhasesOutcome(PhaseCount(split(strip(rawline), CTF_DELIMITER)))

\* The entry put at the head of the list instead of its end
KeywordOutcome_Prepending(keyword, got) ==
    IF got.err # "" THEN Raised(got.err)
    ELSE Continue(<<KeywordEntry(keyword, got.v)>> \o entries, unknown_entries)

\* Lines 197-198, got being what the coercion did
KeywordOutcome(keyword, got) ==
    IF got.err # "" THEN Raised(got.err)
    ELSE Continue(Append(entries, KeywordEntry(keyword, got.v)), unknown_entries)

KeywordOfTokens(tokens) ==
    KeywordOutcome(Token(tokens, 0), KeywordValue(Token(tokens, 0), tokens))

\* Lines 193-198
KeywordLine(rawline) ==
    /\ pc = "header" /\ Yield(rawline)
    /\ Rule(strip(rawline)) = "keyword"
    /\ KeywordOfTokens(split(strip(rawline), CTF_DELIMITER))

UnknownOfTokens(tokens) ==
    Continue(entries, Append(unknown_entries, UnknownEntry(Token(tokens, 0), tokens)))

\* Lines 199-200
UnknownLine(rawline) ==
    /\ pc = "header" /\ Yield(rawline)
    /\ Rule(strip(rawline)) = "unknown"
    /\ UnknownOfTokens(split(strip(rawline), CTF_DELIMITER))

\* The end of the input met by the header loop taken as an error
HeaderEnd_Failing ==
    /\ pc = "header" /\ CanEnd
    /\ exhausted' = TRUE
    /\ pc' = "raised"
    /\ exc' = "ValueError"
    /\ UNCHANGED <<consumed, entries, unknown_entries, header_phases, phase_num, phases,
                   emitted, result, file, earlier>>

\* Lines 178, 201: the generator ends, the for loop ends, _parse_header returns
HeaderEnd ==
    /\ pc = "header" /\ CanEnd
    /\ exhausted' = TRUE
    /\ pc' = "emit"
    /\ UNCHANGED <<consumed, entries, unknown_entries, header_phases, phase_num, phases,
                   emitted, result, exc, file, earlier>>

\* Line 153, got being what the loop body did with the line
PhaseLineOutcome(got) ==
    IF got.err # "" THEN Raised(got.err)
    ELSE /\ phases' = Append(phases, got.v)
         /\ UNCHANGED <<pc, exhausted, entries, unknown_entries, header_phases,
                        phase_num, emitted, result, exc, file, earlier>>

\* Lines 131-153: next(file) yields a line and the loop body runs on it
PhaseLine(rawline) ==
    /\ pc = "phases" /\ RangeHasNext(Len(phases), phase_num) /\ Yield(rawline)
    /\ PhaseLineOutcome(PhaseRow(Len(phases), rawline))

\* Line 132: next(file) on a generator that has ended raises StopIteration
PhaseEnd ==
    /\ pc = "phases" /\ RangeHasNext(Len(phases), phase_num) /\ CanEnd
    /\ exhausted' = TRUE
    /\ pc' = "raised"
    /\ exc' = "StopIteration"
    /\ UNCHANGED <<consumed, entries, unknown_entries, header_phases, phase_num, phases,
                   emitted, result, file, earlier>>

\* Lines 155, 191-192: the range is used up, parse_phases returns its list, break
PhasesReturn ==
    /\ pc = "phases" /\ ~RangeHasNext(Len(phases), phase_num)
    /\ header_phases' = phases
    /\ pc' = AfterPhases
    /\ UNCHANGED <<consumed, exhausted, entries, unknown_entries, phase_num, phases,
                   emitted, result, exc, file, earlier>>

-----------------------------------------------------------------------------
(* Lines 203-219: parse_header, after _parse_header has returned.           *)

PHASES_SLASH_PHASE == <<"P","h","a","s","e","s","/","P","h","a","s","e"," ">>

\* f'SOURCE/Phases/Phase {index}/' followed by name
PhaseKey(index, name) == SOURCE \o PHASES_SLASH_PHASE \o str_of_int(index) \o <<"/">> \o name

\* Line 209: f'Phase {index}, {CTF_LAUE_CLASS_MAP.get(index, "Unknown")}'; the table is an
\* imported constant, so the looked-up name is kept as the lookup itself.
Annotations(index) ==
    <<"P","h","a","s","e"," ">> \o str_of_int(index) \o <<",", " ">>
    \o <<[lookup |-> "CTF_LAUE_CLASS_MAP", key |-> index, default |-> "Unknown"]>>

\* Lines 210-217: the eight entries appended for one phase, i its index and a the
\* annotation of line 209
PhaseEntriesOf(phase, i, a) ==
        <<MetaForgeMetadata(PhaseKey(i, <<"L","a","u","e","G","r","o","u","p">>),
                            StrV(LaueGroupName(phase.group)), a, ""),
          MetaForgeMetadata(PhaseKey(i, <<"I","n","t","e","r","n","a","l","1">>),
                            StrV(phase.internal1), a, ""),
          MetaForgeMetadata(PhaseKey(i, <<"I","n","t","e","r","n","a","l","2">>),
                            StrV(phase.internal2), a, ""),
          MetaForgeMetadata(PhaseKey(i, <<"L","a","t","t","i","c","e","A","n","g","l","e","s">>),
                            phase.lattice_angles, a, "DEGREES_UNITS"),
          MetaForgeMetadata(PhaseKey(i, <<"L","a","t","t","i","c","e","C","o","n","s","t","a","n","t","s">>),
                            phase.lattice_constants, a, "ANGSTROM_UNITS"),
          MetaForgeMetadata(PhaseKey(i, <<"N","a","m","e">>), StrV(phase.name), a, ""),
          MetaForgeMetadata(PhaseKey(i, <<"S","p","a","c","e","G","r","o","u","p">>),
                            IntV(phase.space_group), a, ""),
          MetaForgeMetadata(PhaseKey(i, <<"C","o","m","m","e","n","t">>),
                            StrV(phase.comment), a, "")>>

\* The eight entries with SpaceGroup put before Name
Reordered(e) == <<e[1], e[2], e[3], e[4], e[5], e[7], e[6], e[8]>>

PhaseEntries_SpaceGroupFirst(phase) ==
    Reordered(PhaseEntriesOf(phase, phase.index, Annotations(phase.index)))

PhaseEntries(phase) == PhaseEntriesOf(phase, phase.index, Annotations(phase.index))

\* Lines 208-217: one iteration of `for phase in phases`
EmitPhase ==
    /\ pc = "emit" /\ emitted < Len(header_phases)
    /\ entries' = entries \o PhaseEntries(header_phases[emitted + 1])
    /\ emitted' = emitted + 1
    /\ UNCHANGED <<pc, consumed, exhausted, unknown_entries, header_phases, phase_num,
                   phases, result, exc, file, earlier>>

\* Line 219
Return ==
    /\ pc = "emit" /\ emitted = Len(header_phases)
    /\ result' = <<entries>>
    /\ pc' = "returned"
    /\ UNCHANGED <<consumed, exhausted, entries, unknown_entries, header_phases, phase_num,
                   phases, emitted, exc, file, earlier>>

-----------------------------------------------------------------------------

\* Lines 95-99, 175-177, 204: a fresh generator and an empty CtfHeader
Init ==
    /\ pc = "header"
    /\ consumed = <<>>
    /\ exhausted = FALSE
    /\ entries = <<>>
    /\ unknown_entries = <<>>
    /\ header_phases = <<>>
    /\ phase_num = 0
    /\ phases = <<>>
    /\ emitted = 0
    /\ result = <<>>
    /\ exc = ""
    /\ file = [lines |-> <<>>, ended |-> FALSE]
    /\ earlier = <<>>

Next ==
    \/ \E rawline \in Lines : SignatureLine(rawline)
    \/ \E rawline \in Lines : PrjLine(rawline)
    \/ \E rawline \in Lines : LongTextLine(rawline)
    \/ \E rawline \in Lines : PhasesLine(rawline)
    \/ \E rawline \in Lines : KeywordLine(rawline)
    \/ \E rawline \in Lines : UnknownLine(rawline)
    \/ HeaderEnd
    \/ \E rawline \in Lines : PhaseLine(rawline)
    \/ PhaseEnd
    \/ PhasesReturn
    \/ EmitPhase
    \/ Return

Spec == Init /\ [][Next]_vars

\* The most calls of parse_header made on one file.
MaxCalls == 2

\* A header whose lists are those of the header before it (lists kept on the class)
CtfHeader_Shared ==
    [phases |-> header_phases, entries |-> entries, unknown_entries |-> unknown_entries]

\* Lines 96-99: CtfHeader(), the fields of a new header
CtfHeader == [phases |-> <<>>, entries |-> <<>>, unknown_entries |-> <<>>]

\* Lines 175-177, 204: parse_header is called again on the same filepath once the call
\* before has returned: a new generator over the same file and a new CtfHeader.  What
\* the call before read of the file is what the file holds there.
Again ==
    /\ pc = "returned" /\ Len(earlier) + 1 < MaxCalls
    /\ earlier' = Append(earlier, result[1])
    /\ file' = [lines |-> consumed, ended |-> exhausted]
    /\ consumed' = <<>> /\ exhausted' = FALSE
    /\ entries' = CtfHeader.entries
    /\ unknown_entries' = CtfHeader.unknown_entries
    /\ header_phases' = CtfHeader.phases
    /\ phase_num' = 0 /\ phases' = <<>> /\ emitted' = 0
    /\ result' = <<>> /\ exc' = ""
    /\ pc' = "header"

NextTwice == Next \/ Again

\* parse_header called on one file up to MaxCalls times
SpecTwice == Init /\ [][NextTwice]_vars
-----------------------------------------------------------------------------
(* What the properties below read off a state.                              *)

Last(seq) == seq[Len(seq)]

\* The sequence's elements, as a set
Range(seq) == {seq[i] : i \in 1..Len(seq)}

\* The tab-delimited fields of the i-th line the generator yielded, as the parser
\* sees them (line.strip().split('\t'))
Fields(i) == split(strip(consumed[i]), CTF_DELIMITER)

\* Where the phase-marker line stands among the lines yielded: the first line that
\* begins with "Phases"; 0 while there is none.
MarkerAt ==
    IF \E i \in 1..Len(consumed) : startswith(strip(consumed[i]), CTF_PHASES)
    THEN SetMin({i \in 1..Len(consumed) : startswith(strip(consumed[i]), CTF_PHASES)})
    ELSE 0

\* The marker line declares a count: its second field is an integer
MarkerDeclares == MarkerAt # 0 /\ Len(Fields(MarkerAt)) >= 2 /\ py_int(Fields(MarkerAt)[2]).err = ""

\* The count N written on the marker line
DeclaredCount == py_int(Fields(MarkerAt)[2]).v.n

\* The i-th line yielded was read by the header loop (not by parse_phases)
ReadAsHeader(i) == MarkerAt = 0 \/ i <= MarkerAt

\* The exceptions that stand for the specification's FormatError: what int(), float()
\* and LaueGroup() raise on text they cannot take, and what a missing token raises
FormatErrors == {"ValueError", "IndexError"}

-----------------------------------------------------------------------------
(* C1 - C4: the phase table and the failures of a parse.                    *)

\* C1: once the line "Phases<TAB>N" is dispatched, exactly the next N lines are read
\* from the same generator and the header loop stops: the cursor never passes the
\* N-th phase row, control never returns to the header loop, and a parse that
\* returns has read N lines after the marker, whatever the generator still holds.
C1_PhaseTableEndsHeaderPass ==
    (MarkerDeclares /\ DeclaredCount >= 0) =>
        /\ pc # "header"
        /\ Len(consumed) <= MarkerAt + DeclaredCount
        /\ pc \in {"emit", "returned"} => Len(consumed) = MarkerAt + DeclaredCount

\* C1 witness: a parse returned after a marker declaring 1 and one row, the generator
\* not at its end (it may hold more lines, none of which was read)
C1_Witness ==
    /\ pc = "returned"
    /\ MarkerDeclares /\ DeclaredCount = 1
    /\ Len(consumed) = MarkerAt + 1
    /\ ~exhausted

\* C2: when the parse of an input gets through, the number of Phase records equals the
\* integer N declared on the phase-marker line.
C2_PhaseCountIsDeclared ==
    (pc \in {"emit", "returned"} /\ MarkerDeclares /\ DeclaredCount >= 0) =>
        Len(header_phases) = DeclaredCount

\* C2 witness: a parse returned with the two phases its marker declared
C2_Witness ==
    /\ pc = "returned"
    /\ MarkerDeclares /\ DeclaredCount = 2
    /\ Len(header_phases) = 2

\* A recognised field's payload that its coercion cannot take, a long-text line with
\* too few tokens or an uncoercible value, a marker without an integer count
C3_BadHeaderLine(line) ==
    \/ /\ Rule(line) = "keyword"
       /\ Len(split(line, TAB)) > 1
       /\ \/ /\ split(line, TAB)[1] \in IntKeywords
             /\ py_int(join(TAB, Tail(split(line, TAB)))).err # ""
          \/ /\ split(line, TAB)[1] \in FloatKeywords
             /\ py_float(replace(join(TAB, Tail(split(line, TAB))), ",", ".")).err # ""
    \/ /\ startswith(line, CTF_LONG_TEXT)
       /\ \/ Len(split(line, TAB)) < 13
          \/ \E k \in {3, 5, 7} : py_int(split(line, TAB)[k]).err # ""
          \/ \E k \in {9, 11, 13} : py_float(split(line, TAB)[k]).err # ""
    \/ /\ startswith(line, CTF_PHASES)
       /\ Len(split(line, TAB)) < 2 \/ py_int(split(line, TAB)[2]).err # ""

\* The text is three or more floats separated by semicolons, either decimal separator
C3_IsTriplet(text) ==
    /\ Len(split(text, ";")) >= 3
    /\ \A k \in 1..3 : py_float(replace(split(text, ";")[k], ",", ".")).err = ""

\* A phase row with fewer than 4 fields, a bad triplet, a symmetry-class code that is
\* no integer of 1..12, or a space group (8-field shape) that is no integer
C3_BadRow(t) ==
    \/ Len(t) < 4
    \/ ~C3_IsTriplet(t[1]) \/ ~C3_IsTriplet(t[2])
    \/ py_int(t[4]).err # ""
    \/ py_int(t[4]).v.n \notin 1..12
    \/ Len(t) = 8 /\ py_int(t[5]).err # ""

\* The i-th line yielded has a format failure, as the loop that read it takes it
C3_FormatFailure(i) ==
    IF ReadAsHeader(i) THEN C3_BadHeaderLine(strip(consumed[i])) ELSE C3_BadRow(Fields(i))

\* C3: a format failure aborts the whole parse at once with a FormatError: the line
\* that has it is the last line read, nothing is returned (not even the entries of the
\* earlier lines), and the exception is one of the format errors.
C3_FormatFailureAborts ==
    \A i \in 1..Len(consumed) :
        C3_FormatFailure(i) =>
            /\ pc = "raised"
            /\ exc \in FormatErrors
            /\ i = Len(consumed)
            /\ result = <<>>

\* C3 witness: a parse that had collected an entry and then met an uncoercible payload
C3_Witness ==
    /\ pc = "raised" /\ exc = "ValueError"
    /\ Len(entries) > 0
    /\ Len(consumed) = 2 /\ C3_FormatFailure(2)
    /\ result = <<>>

\* C4 (as claimed): when the generator ends before all N declared rows are read, the
\* parse fails with the same kind of error as any other format failure and returns
\* nothing.  The state is the one next(file) leaves on a generator at its end.
C4_PrematureEndIsFormatError ==
    (pc = "raised" /\ exhausted) => (exc \in FormatErrors /\ result = <<>>)

-----------------------------------------------------------------------------
(* C5 - C6: decimal separators and unknown keywords.                        *)

\* text with every comma written as a period: the same payload in the other convention
C5_WithPeriods(text) == replace(text, ",", ".")

\* float() of the k-th field of t, written with periods
C5_PeriodFloat(t, k) == py_float(C5_WithPeriods(strip(t[k])))

\* The value of a triplet field written with periods
C5_PeriodTriplet(text) ==
    TupleV(py_float(C5_WithPeriods(split(text, ";")[1])).v,
           py_float(C5_WithPeriods(split(text, ";")[2])).v,
           py_float(C5_WithPeriods(split(text, ";")[3])).v)

\* A dispatch-table float field (XStep, YStep, ZStep, AcqE1, AcqE2, AcqE3): the entry
\* holds the value of the payload written with periods
C5_KeywordFloats ==
    (/\ pc \in {"header", "raised"} /\ Len(consumed) > 0 /\ ReadAsHeader(Len(consumed))
     /\ Rule(strip(Last(consumed))) = "keyword"
     /\ Fields(Len(consumed))[1] \in FloatKeywords
     /\ Len(Fields(Len(consumed))) = 2
     /\ C5_PeriodFloat(Fields(Len(consumed)), 2).err = "")
    => /\ pc = "header"
       /\ Last(entries).value = C5_PeriodFloat(Fields(Len(consumed)), 2).v

\* The long-text floats KV, TiltAngle and TiltAxis: the three last entries of the line
\* hold the values of the payloads written with periods
C5_LongTextFloats ==
    (/\ pc \in {"header", "raised"} /\ Len(consumed) > 0 /\ ReadAsHeader(Len(consumed))
     /\ startswith(strip(Last(consumed)), CTF_LONG_TEXT)
     /\ Len(Fields(Len(consumed))) >= 13
     /\ \A k \in {3, 5, 7} : py_int(Fields(Len(consumed))[k]).err = ""
     /\ \A k \in {9, 11, 13} : C5_PeriodFloat(Fields(Len(consumed)), k).err = ""
     /\ int_of_float(C5_PeriodFloat(Fields(Len(consumed)), 9).v).err = "")
    => /\ pc = "header"
       /\ Len(entries) >= 6
       /\ entries[Len(entries) - 2].value
            = int_of_float(C5_PeriodFloat(Fields(Len(consumed)), 9).v).v
       /\ entries[Len(entries) - 1].value = C5_PeriodFloat(Fields(Len(consumed)), 11).v
       /\ entries[Len(entries)].value = C5_PeriodFloat(Fields(Len(consumed)), 13).v

\* The lattice_constants and lattice_angles triplets of every phase row read
C5_TripletFloats ==
    \A i \in 1..Len(consumed) :
        (~ReadAsHeader(i) /\ ~C3_BadRow(Fields(i))) =>
            /\ Len(phases) >= i - MarkerAt
            /\ phases[i - MarkerAt].lattice_constants = C5_PeriodTriplet(strip(Fields(i)[1]))
            /\ phases[i - MarkerAt].lattice_angles = C5_PeriodTriplet(strip(Fields(i)[2]))

\* C5 (as claimed): for every float-bearing field, a payload written with a comma
\* decimal separator parses to the value of the same payload written with a period,
\* and neither is rejected.
C5_LocaleInvariance == C5_KeywordFloats /\ C5_LongTextFloats /\ C5_TripletFloats

\* A stripped line no rule before the last takes: none of the prefixes, and a first
\* field that is no key of CTF_HEADER_PARSE_MAP
C6_Unrecognized(line) ==
    /\ ~startswith(line, CTF_CHANNEL_TEXT_FILE)
    /\ ~startswith(line, CTF_COLON_CHANNEL_TEXT_FILE)
    /\ ~startswith(line, CTF_PRJ)
    /\ ~startswith(line, CTF_LONG_TEXT)
    /\ ~startswith(line, CTF_PHASES)
    /\ split(line, TAB)[1] \notin
         {CTF_AUTHOR, CTF_JOB_MODE, CTF_X_CELLS, CTF_Y_CELLS, CTF_Z_CELLS, CTF_X_STEP,
          CTF_Y_STEP, CTF_Z_STEP, CTF_ACQ_E1, CTF_ACQ_E2, CTF_ACQ_E3, CTF_EULER}

\* The header loop reads a line whose keyword is unrecognised: the parse goes on,
\* entries is left alone and unknown_entries gets one entry more, keyed
\* SOURCE/<keyword>, its value the other fields rejoined by tabs
C6_Step ==
    (/\ pc = "header"
     /\ Len(consumed') = Len(consumed) + 1
     /\ C6_Unrecognized(strip(Last(consumed'))))
    => /\ pc' = "header" /\ exc' = ""
       /\ entries' = entries
       /\ Len(unknown_entries') = Len(unknown_entries) + 1
       /\ SubSeq(unknown_entries', 1, Len(unknown_entries)) = unknown_entries
       /\ Last(unknown_entries').key = SOURCE \o split(strip(Last(consumed')), TAB)[1]
       /\ Last(unknown_entries').value
            = StrV(join(TAB, Tail(split(strip(Last(consumed')), TAB))))

\* No entry of unknown_entries is in the sequence parse_header returns
C6_NotReturned ==
    pc = "returned" => Range(unknown_entries) \cap Range(result[1]) = {}

\* C6: a header line whose keyword is unrecognised never aborts the parse; it adds
\* exactly one entry to unknown_entries (key SOURCE/<keyword>, value the remaining
\* fields rejoined by tab), nothing to entries, and is not in the returned sequence.
C6_UnknownKeywordTolerated == [][C6_Step]_vars /\ []C6_NotReturned

\* C6 witness: a parse returned an entry while an unknown line sits in unknown_entries
C6_Witness ==
    /\ pc = "returned"
    /\ Len(unknown_entries) = 1
    /\ unknown_entries[1].key = SOURCE \o <<"M","u","m","b","l","e">>
    /\ Len(result[1]) >= 1

-----------------------------------------------------------------------------
(* C7 - C8: the shape of a phase row and the index of its phase.            *)

\* The i-th line yielded was read by parse_phases and a phase was built from it
C7_Built(i) == ~ReadAsHeader(i) /\ Len(phases) >= i - MarkerAt

\* The phase built from the i-th line yielded
C7_PhaseOf(i) == phases[i - MarkerAt]

\* The four optional values of a phase are at their defaults
C7_Defaults(phase) ==
    /\ phase.space_group = 0
    /\ phase.comment = <<>>
    /\ phase.internal1 = <<>>
    /\ phase.internal2 = <<>>

\* The mandatory fields a row has are all well formed: the row has no failure other
\* than, possibly, the number of its fields
C7_PresentFieldsValid(t) ==
    /\ C3_IsTriplet(t[1])
    /\ Len(t) >= 2 => C3_IsTriplet(t[2])
    /\ Len(t) >= 4 => (py_int(t[4]).err = "" /\ py_int(t[4]).v.n \in 1..12)

\* A row of exactly 5 fields: field 4 is the comment, the rest at their defaults
C7_FiveFields(i) ==
    (~ReadAsHeader(i) /\ Len(Fields(i)) = 5 /\ C7_PresentFieldsValid(Fields(i))) =>
        /\ C7_Built(i)
        /\ C7_PhaseOf(i).comment = strip(Fields(i)[5])
        /\ C7_PhaseOf(i).space_group = 0
        /\ C7_PhaseOf(i).internal1 = <<>>
        /\ C7_PhaseOf(i).internal2 = <<>>

\* A row of exactly 8 fields whose field 4 is an integer: all four values are set
C7_EightFields(i) ==
    (/\ ~ReadAsHeader(i) /\ Len(Fields(i)) = 8 /\ C7_PresentFieldsValid(Fields(i))
     /\ py_int(Fields(i)[5]).err = "") =>
        /\ C7_Built(i)
        /\ C7_PhaseOf(i).space_group = py_int(Fields(i)[5]).v.n
        /\ C7_PhaseOf(i).internal1 = strip(Fields(i)[6])
        /\ C7_PhaseOf(i).internal2 = strip(Fields(i)[7])
        /\ C7_PhaseOf(i).comment = strip(Fields(i)[8])

\* C7 (as claimed): 5 fields and 8 fields as above, and a row with any other field
\* count yields all four optional values at their defaults and is never an error.
C7_AnyOtherCountIsNoError ==
    \A i \in 1..Len(consumed) :
        /\ C7_FiveFields(i)
        /\ C7_EightFields(i)
        /\ (/\ ~ReadAsHeader(i) /\ Len(Fields(i)) \notin {5, 8}
            /\ C7_PresentFieldsValid(Fields(i))) =>
               (C7_Built(i) /\ C7_Defaults(C7_PhaseOf(i)))

\* C7 (amended): 5 fields and 8 fields as above, and a row with any other count of at
\* least 4 fields yields all four optional values at their defaults and is no error.
C7_OtherCountFromFourIsNoError ==
    \A i \in 1..Len(consumed) :
        /\ C7_FiveFields(i)
        /\ C7_EightFields(i)
        /\ (/\ ~ReadAsHeader(i) /\ Len(Fields(i)) \notin {5, 8} /\ Len(Fields(i)) >= 4
            /\ C7_PresentFieldsValid(Fields(i))) =>
               (C7_Built(i) /\ C7_Defaults(C7_PhaseOf(i)))

\* C7 witness: an 8-field row and a 6-field row were read, one after the other
C7_Witness ==
    /\ MarkerAt = 1 /\ Len(consumed) = 3 /\ Len(phases) = 2
    /\ Len(Fields(2)) = 8 /\ phases[1].space_group = 229
    /\ Len(Fields(3)) = 6 /\ C7_Defaults(phases[2])

\* C8: the i-th phase row read after the marker makes a Phase with index = i, whatever
\* the row holds; the indices are 1, 2, ... in order, in the list parse_phases builds
\* and in the one the header keeps.
C8_IndexIsPosition ==
    /\ \A k \in 1..Len(phases) : phases[k].index = k
    /\ \A k \in 1..Len(header_phases) : header_phases[k].index = k

\* C8 witness: two phases kept, the second from a row whose numbers (class 11, space
\* group 229) are not its position
C8_Witness ==
    /\ Len(header_phases) = 2
    /\ header_phases[2].index = 2
    /\ header_phases[2].group = 11
    /\ header_phases[2].space_group = 229

-----------------------------------------------------------------------------
(* C9 - C10: the sequence returned and the order of the rules.              *)

\* The names of the eight entries of a phase, in the order claimed
C9_Names ==
    <<<<"L","a","u","e","G","r","o","u","p">>,
      <<"I","n","t","e","r","n","a","l","1">>,
      <<"I","n","t","e","r","n","a","l","2">>,
      <<"L","a","t","t","i","c","e","A","n","g","l","e","s">>,
      <<"L","a","t","t","i","c","e","C","o","n","s","t","a","n","t","s">>,
      <<"N","a","m","e">>,
      <<"S","p","a","c","e","G","r","o","u","p">>,
      <<"C","o","m","m","e","n","t">>>>

\* "SOURCE/Phases/Phase <index>/<name>"
C9_Key(index, name) ==
    <<"S","O","U","R","C","E","/","P","h","a","s","e","s","/","P","h","a","s","e"," ">>
    \o str_of_int(index) \o <<"/">> \o name

C9_UnderPhases(key) ==
    startswith(key, <<"S","O","U","R","C","E","/","P","h","a","s","e","s","/">>)

\* The returned sequence is some header entries, none keyed under SOURCE/Phases/, then
\* eight entries for each phase in ascending index order, named as claimed
C9_Shape ==
    pc = "returned" =>
        /\ Len(result[1]) >= 8 * Len(header_phases)
        /\ \A i \in 1..(Len(result[1]) - 8 * Len(header_phases)) :
               ~C9_UnderPhases(result[1][i].key)
        /\ \A k \in 1..Len(header_phases) : \A j \in 1..8 :
               result[1][Len(result[1]) - 8 * Len(header_phases) + 8 * (k - 1) + j].key
                 = C9_Key(k, C9_Names[j])

\* Once _parse_header has returned, what it left in Header.entries stays in front: the
\* emitter only appends, eight entries at a time, and what is returned is that list
C9_AppendOnly ==
    /\ (pc = "emit" /\ pc' = "emit") =>
           (Len(entries') = Len(entries) + 8 /\ SubSeq(entries', 1, Len(entries)) = entries)
    /\ (pc = "emit" /\ pc' = "returned") => result' = <<entries>>
    /\ (pc # "emit" /\ pc' = "emit") =>
           \A i \in 1..Len(entries') : ~C9_UnderPhases(entries'[i].key)

\* C9: the sequence parse_header returns is Header.entries followed, for each phase in
\* ascending index order, by eight entries in the order LaueGroup, Internal1,
\* Internal2, LatticeAngles, LatticeConstants, Name, SpaceGroup, Comment, keyed under
\* "SOURCE/Phases/Phase <index>/"; its length is |Header.entries| + 8 * N.
C9_ReturnedSequence == []C9_Shape /\ [][C9_AppendOnly]_vars

\* C9 witness: one header entry and one phase returned, nine entries in all
C9_Witness ==
    /\ pc = "returned"
    /\ Len(header_phases) = 1
    /\ Len(result[1]) = 9
    /\ ~C9_UnderPhases(result[1][1].key)

\* The file-type banner, with or without its leading colon
C10_IsSignature(line) ==
    startswith(line, CTF_CHANNEL_TEXT_FILE) \/ startswith(line, CTF_COLON_CHANNEL_TEXT_FILE)

\* The first field of the line is a key of the dispatch table
C10_IsKeyword(line) ==
    split(line, TAB)[1] \in
        {CTF_AUTHOR, CTF_JOB_MODE, CTF_X_CELLS, CTF_Y_CELLS, CTF_Z_CELLS, CTF_X_STEP,
         CTF_Y_STEP, CTF_Z_STEP, CTF_ACQ_E1, CTF_ACQ_E2, CTF_ACQ_E3, CTF_EULER}

\* The number of the first rule that matches the line, in the order signature (1), Prj
\* (2), long text (3), Phases (4), dispatch table (5), unknown (6)
C10_FirstRule(line) ==
    IF C10_IsSignature(line) THEN 1
    ELSE IF startswith(line, CTF_PRJ) THEN 2
    ELSE IF startswith(line, CTF_LONG_TEXT) THEN 3
    ELSE IF startswith(line, CTF_PHASES) THEN 4
    ELSE IF C10_IsKeyword(line) THEN 5
    ELSE 6

\* What each rule, and no other, does to the header
C10_Effect(rule, line) ==
    CASE rule = 1 ->
           /\ pc' = "header" /\ entries' = entries /\ unknown_entries' = unknown_entries
      [] rule = 2 ->
           /\ pc' = "header" /\ unknown_entries' = unknown_entries
           /\ Len(entries') = Len(entries) + 1
           /\ Last(entries').key = SOURCE \o CTF_PRJ
      [] rule = 3 ->
           /\ unknown_entries' = unknown_entries
           /\ \/ pc' = "raised" /\ entries' = entries
              \/ /\ pc' = "header" /\ Len(entries') = Len(entries) + 6
                 /\ entries'[Len(entries) + 1].key = SOURCE \o CTF_MAG
      [] rule = 4 ->
           /\ pc' \in {"phases", "raised"}
           /\ entries' = entries /\ unknown_entries' = unknown_entries
      [] rule = 5 ->
           /\ unknown_entries' = unknown_entries
           /\ \/ pc' = "raised" /\ entries' = entries
              \/ /\ pc' = "header" /\ Len(entries') = Len(entries) + 1
                 /\ Last(entries').key = SOURCE \o split(line, TAB)[1]
      [] rule = 6 ->
           /\ pc' = "header" /\ entries' = entries
           /\ Len(unknown_entries') = Len(unknown_entries) + 1
           /\ Last(unknown_entries').key = SOURCE \o split(line, TAB)[1]

\* The header loop reads a line: it has the effect of the first rule that matches
C10_Step ==
    (pc = "header" /\ Len(consumed') = Len(consumed) + 1) =>
        /\ SubSeq(entries', 1, Len(entries)) = entries
        /\ SubSeq(unknown_entries', 1, Len(unknown_entries)) = unknown_entries
        /\ C10_Effect(C10_FirstRule(strip(Last(consumed'))), strip(Last(consumed')))

\* C10: every header line is handled by exactly one rule, the first that matches in
\* the order signature, Prj prefix, long-text prefix, Phases prefix, dispatch-table
\* keyword, unknown; a signature line, with or without the leading colon, leaves both
\* entries and unknown_entries as they were.
C10_FirstMatchWins == [][C10_Step]_vars

\* C10 witness: a colon-signature line was read after a Prj line and left no entry
C10_Witness ==
    /\ pc = "header"
    /\ Len(consumed) = 2
    /\ startswith(strip(consumed[2]), CTF_COLON_CHANNEL_TEXT_FILE)
    /\ Len(entries) = 1 /\ entries[1].key = SOURCE \o CTF_PRJ
    /\ unknown_entries = <<>>

-----------------------------------------------------------------------------
(* C11 - C14: absent payloads, symmetry-class codes, missing tokens, the    *)
(* long-text line.                                                          *)

\* A stripped line that is a dispatch-table keyword and nothing else
C11_BareKeyword(line) == Len(split(line, TAB)) = 1 /\ InParseMap(line)

\* The unit configured for a keyword: microns for the three step sizes, none otherwise
C11_Unit(keyword) ==
    IF keyword \in {CTF_X_STEP, CTF_Y_STEP, CTF_Z_STEP} THEN "MICRONS_UNITS" ELSE ""

\* The header loop reads a keyword-only line: it goes on, with one entry more in
\* entries, its value absent and its unit the keyword's
C11_Step ==
    (/\ pc = "header" /\ Len(consumed') = Len(consumed) + 1
     /\ C11_BareKeyword(strip(Last(consumed'))))
    => /\ pc' = "header" /\ exc' = ""
       /\ entries' = Append(entries, [key |-> SOURCE \o strip(Last(consumed')),
                                      value |-> NoneV,
                                      annotations |-> <<>>,
                                      units |-> C11_Unit(strip(Last(consumed')))])
       /\ unknown_entries' = unknown_entries

\* C11: a line that is a recognised dispatch-table keyword with no payload token never
\* fails: it appends one entry with an absent value and the keyword's configured unit
\* (the coercion, which would reject or convert an empty payload, is not applied).
C11_AbsentPayload == [][C11_Step]_vars

\* C11 witness: the last entry is that of a bare "XStep" line, absent value, microns
C11_Witness ==
    /\ pc = "header" /\ Len(consumed) > 0
    /\ strip(Last(consumed)) = CTF_X_STEP
    /\ Len(entries) > 0
    /\ Last(entries).value = NoneV /\ Last(entries).units = "MICRONS_UNITS"

\* The symmetry-class code written in the i-th line yielded (a phase row): int(tokens[3])
C12_Code(i) == py_int(Fields(i)[4])

\* The codes tried against LaueGroup itself, on both sides of its twelve values
C12_Codes == (0 - 3)..(LaueGroupMax + 3)

\* LaueGroup takes the codes 1..12 and maps each to itself; every other code is an error
C12_ClosedValues ==
    \A code \in C12_Codes :
        IF code \in 1..12 THEN LaueGroup(code) = Ok(IntV(code))
        ELSE LaueGroup(code).err = "ValueError"

\* A row read whose code is an integer outside 1..12 ended the parse, and produced no phase
C12_OutOfRangeFails ==
    \A i \in 1..Len(consumed) :
        (/\ ~ReadAsHeader(i) /\ Len(Fields(i)) >= 4
         /\ C12_Code(i).err = "" /\ C12_Code(i).v.n \notin 1..12)
        => /\ pc = "raised" /\ exc \in FormatErrors
           /\ i = Len(consumed)
           /\ Len(phases) < i - MarkerAt
           /\ result = <<>>

\* Every phase produced has the code of its row as its group, one of the twelve
C12_GroupIsCode ==
    \A k \in 1..Len(phases) :
        /\ C12_Code(MarkerAt + k).err = ""
        /\ phases[k].group = C12_Code(MarkerAt + k).v.n
        /\ phases[k].group \in 1..12

\* C12: a phase row whose symmetry-class code is an integer outside 1..12 makes the
\* parse fail; the unknown-symmetry value 12 is never substituted for it, so every
\* phase produced has the code written in its row as its laue group.
C12_OutOfRangeCodeFails == C12_ClosedValues /\ C12_OutOfRangeFails /\ C12_GroupIsCode

\* C12 witness: one phase was produced, then a row with code 13 ended the parse
C12_Witness ==
    /\ pc = "raised" /\ exc = "ValueError"
    /\ Len(phases) = 1 /\ phases[1].group = 11
    /\ Len(consumed) = MarkerAt + 2 /\ Len(Fields(Len(consumed))) >= 4
    /\ C12_Code(Len(consumed)).err = "" /\ C12_Code(Len(consumed)).v.n = 13

\* The line the step reads lacks a mandatory token: a long-text line of fewer than 13
\* tab-delimited tokens read by the header loop, or a phase row of fewer than 4 fields
C13_TooShort(line) ==
    \/ pc = "header" /\ startswith(line, CTF_LONG_TEXT) /\ Len(split(line, TAB)) < 13
    \/ pc = "phases" /\ Len(split(line, TAB)) < 4

\* Reading such a line raises a format error and leaves no value behind: no entry, no
\* phase, no result
C13_Step ==
    (Len(consumed') = Len(consumed) + 1 /\ C13_TooShort(strip(Last(consumed'))))
    => /\ pc' = "raised" /\ exc' \in FormatErrors
       /\ entries' = entries /\ unknown_entries' = unknown_entries
       /\ phases' = phases /\ header_phases' = header_phases
       /\ result' = <<>>

\* Once an exception has left parse_header nothing more happens
C13_RaisedIsFinal == pc = "raised" => UNCHANGED vars

\* C13: insufficient mandatory tokens always fail the parse with a format error rather
\* than yielding defaulted or partial values: a long-text line with fewer than 13
\* tokens and a phase row with fewer than 4 fields each abort the parse.
C13_MissingTokensAbort == [][C13_Step /\ C13_RaisedIsFinal]_vars

\* C13 witness: a phase row of 3 fields ended the parse with the error of a missing token
C13_Witness ==
    /\ pc = "raised" /\ exc = "IndexError"
    /\ MarkerAt # 0 /\ Len(consumed) > MarkerAt
    /\ Len(Fields(Len(consumed))) = 3

\* The tokens of a long-text line: at least 13, integers at offsets 2, 4, 6, floats at
\* offsets 8, 10, 12 (the one at 8 finite, so that it has an integer part)
C14_Coercible(t) ==
    /\ Len(t) >= 13
    /\ \A k \in {3, 5, 7} : py_int(strip(t[k])).err = ""
    /\ \A k \in {9, 11, 13} : py_float(strip(t[k])).err = ""
    /\ int_of_float(py_float(strip(t[9])).v).err = ""

\* An entry with a key and a value and neither annotation nor unit
C14_Entry(name, value) ==
    [key |-> SOURCE \o name, value |-> value, annotations |-> <<>>, units |-> ""]

\* The six entries of the tokens t, in their order
C14_Six(t) ==
    <<C14_Entry(CTF_MAG, py_int(strip(t[3])).v),
      C14_Entry(CTF_COVERAGE, py_int(strip(t[5])).v),
      C14_Entry(CTF_DEVICE, py_int(strip(t[7])).v),
      C14_Entry(CTF_KV, int_of_float(py_float(strip(t[9])).v).v),
      C14_Entry(CTF_TILT_ANGLE, py_float(strip(t[11])).v),
      C14_Entry(CTF_TILT_AXIS, py_float(strip(t[13])).v)>>

\* The header loop reads a long-text line with coercible values: it goes on with the
\* six entries appended, the value of KV an integer
C14_Step ==
    (/\ pc = "header" /\ Len(consumed') = Len(consumed) + 1
     /\ startswith(strip(Last(consumed')), CTF_LONG_TEXT)
     /\ C14_Coercible(split(strip(Last(consumed')), TAB)))
    => /\ pc' = "header" /\ exc' = ""
       /\ entries' = entries \o C14_Six(split(strip(Last(consumed')), TAB))
       /\ entries'[Len(entries) + 4].value.t = "int"
       /\ unknown_entries' = unknown_entries

\* C14: a long-text line with at least 13 tokens and coercible values appends exactly
\* six entries, in the order Mag, Coverage, Device, KV, TiltAngle, TiltAxis under
\* "SOURCE/", their values taken from the token offsets 2, 4, 6, 8, 10, 12; KV is parsed
\* as a float and truncated to an integer, and no entry has a unit or an annotation.
C14_LongTextSixEntries == [][C14_Step]_vars

\* C14 witness: the six entries of a line with KV 20.5 and TiltAngle 70.5: KV is 20
C14_Witness ==
    /\ pc = "header" /\ Len(consumed) = 1 /\ Len(entries) = 6
    /\ entries[1].key = SOURCE \o CTF_MAG
    /\ entries[4] = C14_Entry(CTF_KV, IntV(20))
    /\ entries[5] = C14_Entry(CTF_TILT_ANGLE, FloatV(705, 0 - 1, ""))
    /\ entries[6].key = SOURCE \o CTF_TILT_AXIS
-----------------------------------------------------------------------------
(* C15 - C18: order of the entries, repeated parses, stripped rows, inputs   *)
(* without a phase table.                                                   *)

\* The keys a stripped header line puts into entries, in their order
C15_KeysOfLine(line) ==
    IF startswith(line, CTF_CHANNEL_TEXT_FILE) \/ startswith(line, CTF_COLON_CHANNEL_TEXT_FILE)
    THEN <<>>
    ELSE IF startswith(line, CTF_PRJ) THEN <<SOURCE \o CTF_PRJ>>
    ELSE IF startswith(line, CTF_LONG_TEXT)
    THEN <<SOURCE \o CTF_MAG, SOURCE \o CTF_COVERAGE, SOURCE \o CTF_DEVICE,
           SOURCE \o CTF_KV, SOURCE \o CTF_TILT_ANGLE, SOURCE \o CTF_TILT_AXIS>>
    ELSE IF startswith(line, CTF_PHASES) THEN <<>>
    ELSE IF InParseMap(split(line, TAB)[1]) THEN <<SOURCE \o split(line, TAB)[1]>>
    ELSE <<>>

\* How many of the lines yielded the header loop has read
C15_HeaderLinesRead == IF MarkerAt = 0 THEN Len(consumed) ELSE MarkerAt

\* The keys of the first n lines yielded, line after line
RECURSIVE C15_HeaderKeys(_)
C15_HeaderKeys(n) ==
    IF n = 0 THEN <<>> ELSE C15_HeaderKeys(n - 1) \o C15_KeysOfLine(strip(consumed[n]))

\* entries is the header lines' entries in the order of the lines, then eight entries
\* for each phase emitted, every one of them under "SOURCE/Phases/Phase "
C15_KeysInLineOrder ==
    pc # "raised" =>
        LET keys == C15_HeaderKeys(C15_HeaderLinesRead)
        IN  /\ Len(entries) = Len(keys) + 8 * emitted
            /\ \A j \in 1..Len(keys) :
                   /\ entries[j].key = keys[j]
                   /\ ~startswith(entries[j].key, SOURCE \o PHASES_SLASH_PHASE)
            /\ \A j \in (Len(keys) + 1)..Len(entries) :
                   startswith(entries[j].key, SOURCE \o PHASES_SLASH_PHASE)
            /\ pc = "returned" => result = <<entries>>

\* An entry once in entries keeps its place: a step only adds entries at the end
C15_KeepsPlaces ==
    /\ Len(entries') >= Len(entries)
    /\ SubSeq(entries', 1, Len(entries)) = entries

\* C15: insertion order is preserved end to end: the header entries of the returned
\* sequence stand in the order of the lines that produced them, the six long-text
\* entries in the place of their line, and all of them before every phase entry.
C15_InsertionOrder == []C15_KeysInLineOrder /\ [][C15_KeepsPlaces]_vars

\* C15 witness: a long-text line, then a marker and one row: the six entries come
\* first and the eight of the phase after them
C15_Witness ==
    /\ pc = "returned" /\ Len(consumed) = 3 /\ MarkerAt = 2
    /\ Len(result[1]) = 14
    /\ result[1][1].key = SOURCE \o CTF_MAG
    /\ result[1][6].key = SOURCE \o CTF_TILT_AXIS
    /\ startswith(result[1][7].key, SOURCE \o PHASES_SLASH_PHASE)

\* A call after the first reads the file no further than the call before it, raises
\* nothing, and returns the very sequence every call before it returned
C16_SameAsBefore ==
    Len(earlier) > 0 =>
        /\ pc # "raised"
        /\ Len(consumed) <= Len(file.lines)
        /\ consumed = SubSeq(file.lines, 1, Len(consumed))
        /\ pc = "returned" =>
               /\ consumed = file.lines
               /\ \A k \in 1..Len(earlier) : result[1] = earlier[k]

\* C16: parsing an identical well-formed input twice yields identical metadata
\* sequences, order included: every call has its own cursor and its own header, and
\* nothing a call wrote (the phase entries appended to Header.entries among it) shows
\* in the next.
C16_Idempotent == C16_SameAsBefore

\* C16 witness: the second call returned, as the first did, header entries followed by
\* phase entries
C16_Witness ==
    /\ Len(earlier) = 1 /\ pc = "returned"
    /\ Len(result[1]) > 8 /\ Len(header_phases) = 1
    /\ result[1] = earlier[1]

\* The fields of the i-th line yielded as they are written, before any stripping
C17_Written(i) == split(consumed[i], TAB)

\* The i-th line yielded is a row written with 8 fields of which exactly the last n
\* are empty
C17_LastEmpty(i, n) ==
    /\ Len(C17_Written(i)) = 8
    /\ \A k \in (9 - n)..8 : strip(C17_Written(i)[k]) = <<>>
    /\ strip(C17_Written(i)[8 - n]) # <<>>

\* The phase built from the i-th line yielded (a row that parse_phases took)
C17_PhaseOf(i) == phases[i - MarkerAt]

C17_Built(i) == MarkerAt # 0 /\ i > MarkerAt /\ i - MarkerAt <= Len(phases)

C17_AsFiveFields(i) ==
    /\ C17_PhaseOf(i).comment = strip(C17_Written(i)[5])
    /\ C17_PhaseOf(i).space_group = 0
    /\ C17_PhaseOf(i).internal1 = <<>> /\ C17_PhaseOf(i).internal2 = <<>>

C17_AllDefaults(i) ==
    /\ C17_PhaseOf(i).comment = <<>>
    /\ C17_PhaseOf(i).space_group = 0
    /\ C17_PhaseOf(i).internal1 = <<>> /\ C17_PhaseOf(i).internal2 = <<>>

\* The shape is chosen from the fields counted after the line is stripped: the phase
\* has the optional values that the count of Fields(i) gives
C17_ShapeFromStrippedCount(i) ==
    /\ Len(Fields(i)) = 5 =>
           /\ C17_PhaseOf(i).comment = strip(Fields(i)[5])
           /\ C17_PhaseOf(i).space_group = 0
    /\ Len(Fields(i)) = 8 =>
           /\ C17_PhaseOf(i).comment = strip(Fields(i)[8])
           /\ C17_PhaseOf(i).space_group = py_int(strip(Fields(i)[5])).v.n
    /\ Len(Fields(i)) \notin {5, 8} => C17_AllDefaults(i)
    /\ \A n \in 1..4 : C17_LastEmpty(i, n) => Len(Fields(i)) = 8 - n

\* C17 (as claimed): the row shape is chosen from the fields that remain after the
\* line is stripped; a row written with 8 fields whose comment field is empty is
\* handled as a 5-field row (field 4 the comment, space_group 0), and one whose last
\* two or three fields are empty takes all defaults.
C17_StrippedShapeAsClaimed ==
    \A i \in 1..Len(consumed) :
        C17_Built(i) =>
            /\ C17_ShapeFromStrippedCount(i)
            /\ C17_LastEmpty(i, 1) => C17_AsFiveFields(i)
            /\ (C17_LastEmpty(i, 2) \/ C17_LastEmpty(i, 3)) => C17_AllDefaults(i)

\* C17 (amended): the row shape is chosen from the fields that remain after the line
\* is stripped; a row written with 8 fields whose last three fields are empty is
\* handled as a 5-field row (field 4 the comment, space_group 0), and one whose last
\* one or two fields are empty takes all defaults.
C17_StrippedShape ==
    \A i \in 1..Len(consumed) :
        C17_Built(i) =>
            /\ C17_ShapeFromStrippedCount(i)
            /\ C17_LastEmpty(i, 3) => C17_AsFiveFields(i)
            /\ (C17_LastEmpty(i, 1) \/ C17_LastEmpty(i, 2)) => C17_AllDefaults(i)

\* C17 witness: two phases, the first from a row written with 8 fields and an empty
\* comment (all defaults), the second from one with its last three fields empty
\* (comment "229")
C17_Witness ==
    /\ Len(phases) = 2 /\ MarkerAt = 1
    /\ C17_LastEmpty(2, 1) /\ phases[1].comment = <<>> /\ phases[1].space_group = 0
    /\ C17_LastEmpty(3, 3) /\ phases[2].comment = <<"2", "2", "9">>

\* No line yielded begins with "Phases", the end of the input included once reached
C18_NoMarker == MarkerAt = 0

\* None of the lines yielded has a format failure
C18_NoBadLine == \A i \in 1..Len(consumed) : ~C3_BadHeaderLine(strip(consumed[i]))

\* Without a phase table: no phase anywhere, the header loop left only at the end of
\* the input, and what is returned is Header.entries, one entry per key of the lines
\* read and none of them a phase entry
C18_HeaderOnly ==
    /\ header_phases = <<>> /\ phases = <<>> /\ emitted = 0
    /\ pc \in {"header", "emit", "returned", "raised"}
    /\ pc \in {"emit", "returned"} => exhausted
    /\ pc = "returned" =>
           /\ result = <<entries>>
           /\ Len(result[1]) = Len(C15_HeaderKeys(Len(consumed)))
           /\ \A j \in 1..Len(result[1]) :
                  ~startswith(result[1][j].key, SOURCE \o PHASES_SLASH_PHASE)

\* C18 (as claimed): if the input has no line beginning with "Phases", the header loop
\* consumes every line to the end of the input without error, Header.phases stays
\* empty, and parse_header returns exactly Header.entries, with no phase entries.
C18_NoPhaseTableAsClaimed == C18_NoMarker => (pc # "raised" /\ C18_HeaderOnly)

\* C18 (amended): if the input has no line beginning with "Phases" and none of its
\* lines has a format failure, the header loop consumes every line to the end of the
\* input without error, Header.phases stays empty, and parse_header returns exactly
\* Header.entries, with no phase entries.
C18_NoPhaseTable == (C18_NoMarker /\ C18_NoBadLine) => (pc # "raised" /\ C18_HeaderOnly)

\* C18 witness: two header lines and the end of the input, two entries returned
C18_Witness ==
    /\ pc = "returned" /\ C18_NoMarker /\ C18_NoBadLine
    /\ Len(consumed) = 2 /\ exhausted
    /\ Len(result[1]) = 2 /\ header_phases = <<>>
-----------------------------------------------------------------------------
====
